---- MODULE Spec2Model ----
(***************************************************************************)
(* Model of backend/survey-server/src/server.py: a Flask handler that      *)
(* appends every posted survey response to one JSON-array file.            *)
(*                                                                         *)
(* The filesystem is the storage file (absent, or a sequence of JSON       *)
(* tokens), its directory and the temporary files of that directory.       *)
(* Every filesystem call of the code is one step of the calling thread and *)
(* may fail with OSError; the process may be killed between any two steps  *)
(* and is then started again (module import runs ensure_storage_file).     *)
(***************************************************************************)
EXTENDS Integers, Sequences, FiniteSets, TLC

\* ------------------------------------------------------------------ bounds
MaxCalls == 2
MaxTmp == 2

\* Request threads of the one server process.
Procs == {"t1", "t2"}
MainThread == "t1"

\* ------------------------------------------------------------- JSON values
\* A JSON value: t is its type, s its text (numbers, strings, literals), v its
\* children (array: the elements; object: key, value, key, value, ...).
JNull == [t |-> "null", s |-> "null", v |-> <<>>]
JFalse == [t |-> "bool", s |-> "false", v |-> <<>>]
JNum(n) == [t |-> "num", s |-> n, v |-> <<>>]
JStr(x) == [t |-> "str", s |-> x, v |-> <<>>]
JArr(xs) == [t |-> "arr", s |-> "", v |-> xs]
JObj(kvs) == [t |-> "obj", s |-> "", v |-> kvs]

RYes == JObj(<<JStr("q1"), JStr("yes")>>)
RList == JArr(<<JNum("0"), JStr("")>>)
RNull == JNull
Records == {RYes, RList, RNull}

\* Tokens of a JSON text (whitespace and indentation carry no token).
Punct(c) == [k |-> "p", s |-> c]
Atom(val) == [k |-> val.t, s |-> val.s]

\* json.dump: the token sequence of a value.
RECURSIVE Serialize(_)
RECURSIVE SerializeItems(_, _, _)
SerializeItems(xs, i, isObj) ==
    IF i > Len(xs) THEN <<>>
    ELSE Serialize(xs[i])
         \o (IF i = Len(xs) THEN <<>>
             ELSE IF isObj /\ i % 2 = 1 THEN <<Punct(":")>>
             ELSE <<Punct(",")>>)
         \o SerializeItems(xs, i + 1, isObj)

Serialize(val) ==
    IF val.t = "arr" THEN <<Punct("[")>> \o SerializeItems(val.v, 1, FALSE) \o <<Punct("]")>>
    ELSE IF val.t = "obj" THEN <<Punct("{")>> \o SerializeItems(val.v, 1, TRUE) \o <<Punct("}")>>
    ELSE <<Atom(val)>>

\* json.load: a recursive-descent parse of a token sequence.  The result is
\* [ok, val, next]: next is the position after the value parsed.
NoParse == [ok |-> FALSE, val |-> JNull, next |-> 0]
IsPunct(toks, i, c) == i <= Len(toks) /\ toks[i] = Punct(c)

RECURSIVE ParseValue(_, _)
RECURSIVE ParseElems(_, _, _)
RECURSIVE ParseMembers(_, _, _)
ParseElems(toks, i, acc) ==
    LET e == ParseValue(toks, i) IN
    IF ~e.ok THEN NoParse
    ELSE IF IsPunct(toks, e.next, ",") THEN ParseElems(toks, e.next + 1, Append(acc, e.val))
    ELSE IF IsPunct(toks, e.next, "]")
         THEN [ok |-> TRUE, val |-> JArr(Append(acc, e.val)), next |-> e.next + 1]
    ELSE NoParse

ParseMembers(toks, i, acc) ==
    LET key == ParseValue(toks, i) IN
    IF ~key.ok \/ key.val.t # "str" \/ ~IsPunct(toks, key.next, ":") THEN NoParse
    ELSE LET e == ParseValue(toks, key.next + 1)
             kvs == acc \o <<key.val, e.val>>
         IN IF ~e.ok THEN NoParse
            ELSE IF IsPunct(toks, e.next, ",") THEN ParseMembers(toks, e.next + 1, kvs)
            ELSE IF IsPunct(toks, e.next, "}")
                 THEN [ok |-> TRUE, val |-> JObj(kvs), next |-> e.next + 1]
            ELSE NoParse

ParseValue(toks, i) ==
    IF i > Len(toks) THEN NoParse
    ELSE IF toks[i].k = "p"
         THEN IF toks[i].s = "["
              THEN IF IsPunct(toks, i + 1, "]")
                   THEN [ok |-> TRUE, val |-> JArr(<<>>), next |-> i + 2]
                   ELSE ParseElems(toks, i + 1, <<>>)
              ELSE IF toks[i].s = "{"
              THEN IF IsPunct(toks, i + 1, "}")
                   THEN [ok |-> TRUE, val |-> JObj(<<>>), next |-> i + 2]
                   ELSE ParseMembers(toks, i + 1, <<>>)
              ELSE NoParse
    ELSE IF toks[i].k \in {"null", "bool", "num", "str"}
         THEN [ok |-> TRUE, val |-> [t |-> toks[i].k, s |-> toks[i].s, v |-> <<>>], next |-> i + 1]
    ELSE NoParse

\* json.load of a whole file: one value and nothing after it.
JsonLoad(toks) ==
    LET r == ParseValue(toks, 1) IN
    IF r.ok /\ r.next = Len(toks) + 1 THEN r ELSE NoParse

\* -------------------------------------------------------------- filesystem
\* A file: whether the name exists, and the tokens it holds.
Absent == [exists |-> FALSE, content |-> <<>>]
FileOf(toks) == [exists |-> TRUE, content |-> toks]
TmpNames == 1..MaxTmp

\* What a file that was not written by this program may hold.
Garbage == <<[k |-> "garbage", s |-> "x"]>>
InitialContents ==
    {Serialize(JArr(<<>>)), Serialize(JArr(<<RYes>>)), Garbage, Serialize(RYes)}

\* A write of w at offset 0 of a file holding c (no truncation).
WriteAt0(c, w) == IF Len(c) > Len(w) THEN w \o SubSeq(c, Len(w) + 1, Len(c)) ELSE w

\* What reaches the disk when a buffered write fails part-way: nothing, or
\* everything but the last token.
PartialWrites(toks) == {<<>>, SubSeq(toks, 1, Len(toks) - 1)}

\* -------------------------------------------------------------------- state
VARIABLES
    dirExists,  \* the storage directory exists
    file,       \* the storage file
    tmps,       \* the temporary files of the storage directory, by name
    server,     \* "booting" (module import), "up" (serving), "down" (import failed)
    th,         \* per thread: position, call, locals and outcome
    calls,      \* calls started so far
    initial,    \* history: the storage file when the model starts
    log         \* history: the records whose save_response returned, in order

vars == <<dirExists, file, tmps, server, th, calls, initial, log>>

\* Outcome of a call: kind is "ok" or the exception class; status and body
\* are the HTTP response of receive_response (0 and "" for a direct call).
NoResult == [kind |-> "none", msg |-> "", val |-> <<>>, status |-> 0, body |-> ""]
Ok(val) == [kind |-> "ok", msg |-> "", val |-> val, status |-> 0, body |-> ""]
StorageError(msg) == [kind |-> "StorageError", msg |-> msg, val |-> <<>>, status |-> 0, body |-> ""]
OSError == [kind |-> "OSError", msg |-> "errno", val |-> <<>>, status |-> 0, body |-> ""]

ParseErrorMsg == "Unable to parse response storage file."
ReadErrorMsg == "Unable to read response storage file."
NotArrayMsg == "Response storage file must contain a JSON array."
WriteErrorMsg == "Unable to write response storage file."

\* HTTPStatus.OK, BAD_REQUEST, INTERNAL_SERVER_ERROR
HttpOk == 200
HttpBadRequest == 400
HttpServerError == 500

Idle ==
    [pc |-> "idle", op |-> "none", body |-> Absent, arg |-> JNull, data |-> <<>>,
     tmpName |-> 0, tmpPath |-> FALSE, fd |-> "none", result |-> NoResult, pre |-> Absent]

\* The module body: ensure_storage_file() runs when the module is imported.
\* The model starts there, or with the server up and the filesystem as it was
\* left since (save_response calls ensure_storage_file again for that case).
Booting(f) == [Idle EXCEPT !.pc = "e_mkdir", !.op = "boot", !.pre = f]

Init ==
    /\ \E d \in BOOLEAN :
         /\ dirExists = d
         /\ file \in (IF d THEN {Absent} \cup {FileOf(c) : c \in InitialContents} ELSE {Absent})
    /\ tmps = [n \in TmpNames |-> Absent]
    /\ \/ server = "booting" /\ th = [p \in Procs |-> IF p = MainThread THEN Booting(file) ELSE Idle]
       \/ server = "up" /\ th = [p \in Procs |-> Idle]
    /\ calls = 0
    /\ initial = file
    /\ log = <<>>

\* ------------------------------------------------------------ call and return
\* receive_response's answer to the outcome of save_response.  StorageError is
\* caught; any other exception reaches Flask's handler for unhandled exceptions.
Respond(res) ==
    IF res.kind = "ok" THEN [res EXCEPT !.status = HttpOk, !.body = "Submit successful!"]
    ELSE IF res.kind = "StorageError"
         THEN [res EXCEPT !.status = HttpServerError, !.body = "Failed to persist survey response."]
    ELSE [res EXCEPT !.status = HttpServerError, !.body = "unhandled exception"]

\* The call of thread p ends with outcome res (a return or a raise).
Finished(p, res) ==
    [th[p] EXCEPT !.pc = "done", !.data = <<>>, !.tmpPath = FALSE, !.fd = "none",
                  !.result = IF th[p].op = "submit" THEN Respond(res) ELSE res]

CanCall(p) == server = "up" /\ th[p].pc = "idle" /\ calls < MaxCalls

Enter(p, o, a, at) ==
    /\ CanCall(p)
    /\ th' = [th EXCEPT ![p] = [Idle EXCEPT !.pc = at, !.op = o, !.arg = a, !.pre = file]]
    /\ calls' = calls + 1
    /\ UNCHANGED <<dirExists, file, tmps, server, initial, log>>

CallEnsure(p) == Enter(p, "ensure", JNull, "e_mkdir")
CallLoad(p) == Enter(p, "load", JNull, "l_read")
CallAppend(p) == \E r \in Records : Enter(p, "append", r, "e_mkdir")

Return(p) ==
    /\ th[p].pc = "done"
    /\ th' = [th EXCEPT ![p] = Idle]
    /\ UNCHANGED <<dirExists, file, tmps, server, calls, initial, log>>

\* ------------------------------------------------------- ensure_storage_file
\* ensure_storage_file returns to its caller: the module body (the server is
\* up), a direct call, or save_response (which goes on to load_responses).
EnsureReturns(p) ==
    /\ th' = [th EXCEPT ![p] =
                IF th[p].op = "boot" THEN Idle
                ELSE IF th[p].op = "ensure" THEN Finished(p, Ok(<<>>))
                ELSE [th[p] EXCEPT !.pc = "s_load", !.fd = "none"]]
    /\ server' = IF th[p].op = "boot" THEN "up" ELSE server

\* ensure_storage_file raises OSError: nothing in it or in save_response
\* catches it.  In the module body the import fails and the server is down.
EnsureRaises(p) ==
    /\ th' = [th EXCEPT ![p] = IF th[p].op = "boot" THEN Idle ELSE Finished(p, OSError)]
    /\ server' = IF th[p].op = "boot" THEN "down" ELSE server

\* os.makedirs(storage_dir, exist_ok=True)
EMkdir(p) ==
    /\ th[p].pc = "e_mkdir"
    /\ \/ /\ dirExists' = TRUE
          /\ th' = [th EXCEPT ![p].pc = "e_exists"]
          /\ UNCHANGED server
       \/ /\ ~dirExists
          /\ UNCHANGED dirExists
          /\ EnsureRaises(p)
    /\ UNCHANGED <<file, tmps, calls, initial, log>>

\* Mutant of EExists: the file is written whether or not it exists.
EExistsNoCheck(p) ==
    /\ th[p].pc = "e_exists"
    /\ th' = [th EXCEPT ![p].pc = "e_open"]
    /\ UNCHANGED <<dirExists, file, tmps, server, calls, initial, log>>

\* if not os.path.exists(storage_file)
EExists(p) ==
    /\ th[p].pc = "e_exists"
    /\ IF file.exists
       THEN EnsureReturns(p)
       ELSE th' = [th EXCEPT ![p].pc = "e_open"] /\ UNCHANGED server
    /\ UNCHANGED <<dirExists, file, tmps, calls, initial, log>>

\* open(storage_file, 'w'): creates the file, or truncates the one that is there.
EOpen(p) ==
    /\ th[p].pc = "e_open"
    /\ \/ /\ file' = FileOf(<<>>)
          /\ th' = [th EXCEPT ![p].pc = "e_write", ![p].fd = "cur"]
          /\ UNCHANGED server
       \/ /\ UNCHANGED file
          /\ EnsureRaises(p)
    /\ UNCHANGED <<dirExists, tmps, calls, initial, log>>

\* json.dump([], file) and the close that flushes it.  The descriptor writes to
\* the file it opened: when os.replace has put another file under the name since,
\* the write goes to the replaced file and the storage file does not change.
EWrite(p) ==
    /\ th[p].pc = "e_write"
    /\ \/ /\ file' = IF th[p].fd = "cur"
                     THEN FileOf(WriteAt0(file.content, Serialize(JArr(<<>>))))
                     ELSE file
          /\ EnsureReturns(p)
       \/ /\ \E w \in PartialWrites(Serialize(JArr(<<>>))) :
               file' = IF th[p].fd = "cur" THEN FileOf(WriteAt0(file.content, w)) ELSE file
          /\ EnsureRaises(p)
    /\ UNCHANGED <<dirExists, tmps, calls, initial, log>>

\* ------------------------------------------------------------ load_responses
\* Mutant of LoadResult: a file that does not parse is read as no responses.
LoadResultLenient(f) ==
    IF ~f.exists THEN Ok(<<>>)
    ELSE LET parsed == JsonLoad(f.content) IN
         IF ~parsed.ok THEN Ok(<<>>)
         ELSE IF parsed.val.t # "arr" THEN StorageError(NotArrayMsg)
         ELSE Ok(parsed.val.v)

\* The outcome of load_responses on storage file f when the read itself works.
LoadResult(f) ==
    IF ~f.exists THEN Ok(<<>>)
    ELSE LET parsed == JsonLoad(f.content) IN
         IF ~parsed.ok THEN StorageError(ParseErrorMsg)
         ELSE IF parsed.val.t # "arr" THEN StorageError(NotArrayMsg)
         ELSE Ok(parsed.val.v)

\* Mutant of LoadOutcomes: a failed read is reported with the parse error.
LoadOutcomesConfused(f) ==
    {LoadResult(f)} \cup (IF f.exists THEN {StorageError(ParseErrorMsg)} ELSE {})

\* The outcomes of load_responses: LoadResult, or a failed open or read.
LoadOutcomes(f) ==
    {LoadResult(f)} \cup (IF f.exists THEN {StorageError(ReadErrorMsg)} ELSE {})

\* Mutant of LRead: a missing storage file is created before it is read.
LReadCreates(p) ==
    /\ th[p].pc = "l_read"
    /\ file' = IF file.exists THEN file ELSE FileOf(Serialize(JArr(<<>>)))
    /\ \E res \in LoadOutcomes(file') : th' = [th EXCEPT ![p] = Finished(p, res)]
    /\ UNCHANGED <<dirExists, tmps, server, calls, initial, log>>

\* A direct call of load_responses.
LRead(p) ==
    /\ th[p].pc = "l_read"
    /\ \E res \in LoadOutcomes(file) : th' = [th EXCEPT ![p] = Finished(p, res)]
    /\ UNCHANGED <<dirExists, file, tmps, server, calls, initial, log>>

\* ------------------------------------------------------------- save_response
\* Mutants of Appended: the response put first; the stored responses dropped.
AppendedFront(data, response) == <<response>> \o data
AppendedAlone(data, response) == <<response>>

\* data.append(response)
Appended(data, response) == Append(data, response)

\* Mutant of SLoad: a StorageError of load_responses is taken as an empty list.
SLoadRepair(p) ==
    /\ th[p].pc = "s_load"
    /\ \E res \in LoadOutcomes(file) :
         th' = [th EXCEPT ![p] =
                  [th[p] EXCEPT !.pc = "s_mktemp", !.data = Appended(res.val, th[p].arg)]]
    /\ UNCHANGED <<dirExists, file, tmps, server, calls, initial, log>>

\* data = load_responses() (a StorageError is raised on); data.append(response)
SLoad(p) ==
    /\ th[p].pc = "s_load"
    /\ \E res \in LoadOutcomes(file) :
         th' = [th EXCEPT ![p] =
                  IF res.kind = "ok"
                  THEN [th[p] EXCEPT !.pc = "s_mktemp", !.data = Appended(res.val, th[p].arg)]
                  ELSE Finished(p, res)]
    /\ UNCHANGED <<dirExists, file, tmps, server, calls, initial, log>>

FreeTmpNames == {n \in TmpNames : ~tmps[n].exists}
LeastFree == CHOOSE n \in FreeTmpNames : \A m \in FreeTmpNames : n <= m

\* tempfile.NamedTemporaryFile('w', delete=False, dir=temp_dir): a new, empty
\* file under a name not in use; OSError when it cannot be created.
SMktemp(p) ==
    /\ th[p].pc = "s_mktemp"
    /\ \/ /\ FreeTmpNames # {}
          /\ tmps' = [tmps EXCEPT ![LeastFree] = FileOf(<<>>)]
          /\ th' = [th EXCEPT ![p].pc = "s_dump", ![p].tmpName = LeastFree]
       \/ /\ UNCHANGED tmps
          /\ th' = [th EXCEPT ![p] = Finished(p, StorageError(WriteErrorMsg))]
    /\ UNCHANGED <<dirExists, file, server, calls, initial, log>>

\* The except clause of save_response: the temporary file is removed when
\* tmp_path is bound (and the file exists).
TmpsAfterCleanup(p, t) ==
    IF th[p].tmpPath /\ t[th[p].tmpName].exists
    THEN [t EXCEPT ![th[p].tmpName] = Absent]
    ELSE t

\* json.dump(data, tmp_file, indent=2), then tmp_path = tmp_file.name.  The dump
\* writes through a buffer; an OSError in it leaves part of the text on disk.
SDump(p) ==
    /\ th[p].pc = "s_dump"
    /\ \/ /\ th' = [th EXCEPT ![p].pc = "s_close", ![p].tmpPath = TRUE]
          /\ UNCHANGED tmps
       \/ /\ \E w \in PartialWrites(Serialize(JArr(th[p].data))) :
               tmps' = TmpsAfterCleanup(p, [tmps EXCEPT ![th[p].tmpName] = FileOf(w)])
          /\ th' = [th EXCEPT ![p] = Finished(p, StorageError(WriteErrorMsg))]
    /\ UNCHANGED <<dirExists, file, server, calls, initial, log>>

\* The end of the with block: the temporary file is flushed and closed.
SClose(p) ==
    /\ th[p].pc = "s_close"
    /\ \/ /\ tmps' = [tmps EXCEPT ![th[p].tmpName] = FileOf(Serialize(JArr(th[p].data)))]
          /\ th' = [th EXCEPT ![p].pc = "s_replace"]
       \/ /\ \E w \in PartialWrites(Serialize(JArr(th[p].data))) :
               tmps' = TmpsAfterCleanup(p, [tmps EXCEPT ![th[p].tmpName] = FileOf(w)])
          /\ th' = [th EXCEPT ![p] = Finished(p, StorageError(WriteErrorMsg))]
    /\ UNCHANGED <<dirExists, file, server, calls, initial, log>>

\* Descriptors open on the storage file keep the file that os.replace replaced.
Orphaned(t, p) == [q \in Procs |-> IF q # p /\ t[q].fd = "cur" THEN [t[q] EXCEPT !.fd = "orphan"] ELSE t[q]]

\* Mutant of SReplace: the temporary file is copied over the storage file, and a
\* failed copy leaves part of the text in it.
SReplaceCopy(p) ==
    /\ th[p].pc = "s_replace"
    /\ \/ /\ file' = FileOf(tmps[th[p].tmpName].content)
          /\ tmps' = [tmps EXCEPT ![th[p].tmpName] = Absent]
          /\ th' = [th EXCEPT ![p] = Finished(p, Ok(<<>>))]
          /\ log' = Append(log, th[p].arg)
       \/ /\ \E w \in PartialWrites(tmps[th[p].tmpName].content) : file' = FileOf(w)
          /\ tmps' = TmpsAfterCleanup(p, tmps)
          /\ th' = [th EXCEPT ![p] = Finished(p, StorageError(WriteErrorMsg))]
          /\ UNCHANGED log
    /\ UNCHANGED <<dirExists, server, calls, initial>>

\* os.replace(tmp_path, storage_file): the temporary file takes the name of the
\* storage file in one step, and save_response returns.
SReplace(p) ==
    /\ th[p].pc = "s_replace"
    /\ \/ /\ file' = FileOf(tmps[th[p].tmpName].content)
          /\ tmps' = [tmps EXCEPT ![th[p].tmpName] = Absent]
          /\ th' = Orphaned([th EXCEPT ![p] = Finished(p, Ok(<<>>))], p)
          /\ log' = Append(log, th[p].arg)
       \/ /\ tmps' = TmpsAfterCleanup(p, tmps)
          /\ th' = [th EXCEPT ![p] = Finished(p, StorageError(WriteErrorMsg))]
          /\ UNCHANGED <<file, log>>
    /\ UNCHANGED <<dirExists, server, calls, initial>>

\* ---------------------------------------------------------- receive_response
\* A request body: absent, or the tokens of its text.
NoBody == Absent
Scalars == {JNull, JFalse, JNum("0"), JStr("")}
Bodies == {NoBody, FileOf(Garbage)} \cup {FileOf(Serialize(r)) : r \in Records \cup Scalars}

\* request.get_json(): the parsed body; a missing or unparseable body aborts
\* the request with 400 Bad Request.
GetJson(body) == IF body.exists THEN JsonLoad(body.content) ELSE NoParse

BadRequest(text) ==
    [kind |-> "BadRequest", msg |-> "", val |-> <<>>, status |-> HttpBadRequest, body |-> text]

\* Mutant of Submit: whatever get_json gives (None for a body that is missing
\* or does not parse) is handed to save_response.
SubmitNoReject(p) ==
    /\ CanCall(p)
    /\ \E body \in Bodies :
         th' = [th EXCEPT ![p] =
                  [Idle EXCEPT !.op = "submit", !.body = body, !.pre = file,
                               !.pc = "e_mkdir", !.arg = GetJson(body).val]]
    /\ calls' = calls + 1
    /\ UNCHANGED <<dirExists, file, tmps, server, initial, log>>

\* receive_response up to the call of save_response.
Submit(p) ==
    /\ CanCall(p)
    /\ \E body \in Bodies :
         LET json == GetJson(body)
             call == [Idle EXCEPT !.op = "submit", !.body = body, !.pre = file]
         IN th' = [th EXCEPT ![p] =
                     IF ~json.ok
                     THEN [call EXCEPT !.pc = "done", !.result = BadRequest("Bad Request")]
                     ELSE IF json.val = JNull
                     THEN [call EXCEPT !.pc = "done", !.arg = json.val,
                                       !.result = BadRequest("Request body must contain JSON.")]
                     ELSE [call EXCEPT !.pc = "e_mkdir", !.arg = json.val]]
    /\ calls' = calls + 1
    /\ UNCHANGED <<dirExists, file, tmps, server, initial, log>>

\* --------------------------------------------------------------------- crash
\* The process is killed and started again: every thread is gone, the
\* filesystem stays as it is, and the module body runs ensure_storage_file.
Crash ==
    /\ server' = "booting"
    /\ th' = [p \in Procs |-> IF p = MainThread THEN Booting(file) ELSE Idle]
    /\ UNCHANGED <<dirExists, file, tmps, calls, initial, log>>

\* ------------------------------------------------------------ specifications
Step(p) ==
    \/ CallEnsure(p) \/ CallLoad(p) \/ CallAppend(p) \/ Submit(p) \/ Return(p)
    \/ EMkdir(p) \/ EExists(p) \/ EOpen(p) \/ EWrite(p)
    \/ LRead(p)
    \/ SLoad(p) \/ SMktemp(p) \/ SDump(p) \/ SClose(p) \/ SReplace(p)

\* Request threads run concurrently.
Next == (\E p \in Procs : Step(p)) \/ Crash

Spec == Init /\ [][Next]_vars

\* One call at a time, and the process may be killed.
CrashNext == Step(MainThread) \/ Crash

CrashSpec == Init /\ [][CrashNext]_vars

\* One call at a time, and the process is never killed.
SeqNext == Step(MainThread)

SeqSpec == Init /\ [][SeqNext]_vars

\* ==================================================================== claims
\* Thread p runs save_response (directly, or for receive_response).
AppendCall(p) ==
    th[p].op = "append" \/ (th[p].op = "submit" /\ th[p].result.kind # "BadRequest")
\* The call of thread p has returned without an exception.
Succeeded(p) == th[p].pc = "done" /\ th[p].result.kind = "ok"
\* File f exists and holds a JSON array; ArrayOf(f) is that array.
HoldsArray(f) == f.exists /\ JsonLoad(f.content).ok /\ JsonLoad(f.content).val.t = "arr"
ArrayOf(f) == JsonLoad(f.content).val.v
\* File f exists and does not hold a JSON array.
Corrupt(f) == f.exists /\ ~HoldsArray(f)
EmptyArrayFile == FileOf(Serialize(JArr(<<>>)))
EnsurePcs == {"e_mkdir", "e_exists", "e_open", "e_write"}
WritePcs == {"s_mktemp", "s_dump", "s_close", "s_replace"}

\* C1: when save_response(r) on a storage file holding the array A has
\* returned, load_responses on the file gives an array of length len(A)+1
\* whose last element is r and whose first len(A) elements are A.
C1_AppendThenLoad ==
    \A p \in Procs :
        (AppendCall(p) /\ Succeeded(p) /\ HoldsArray(th[p].pre)) =>
            LET A == ArrayOf(th[p].pre)
                got == LoadResult(file)
            IN /\ got.kind = "ok"
               /\ Len(got.val) = Len(A) + 1
               /\ got.val[Len(got.val)] = th[p].arg
               /\ SubSeq(got.val, 1, Len(A)) = A

\* C1 witness: a response appended to a non-empty array.
C1_Witness ==
    \E p \in Procs :
        /\ AppendCall(p) /\ Succeeded(p)
        /\ th[p].pre = FileOf(Serialize(JArr(<<RYes>>)))
        /\ th[p].arg = RList

\* C2: when two save_response calls with distinct records on a store that
\* started as the empty array have both returned, the file holds both records
\* (an array of length 2, in either order).
C2_BothPresent ==
    (/\ initial = EmptyArrayFile
     /\ Len(log) = 2
     /\ \A p \in Procs : AppendCall(p) /\ Succeeded(p)
     /\ th["t1"].arg # th["t2"].arg)
    => LET got == LoadResult(file)
       IN /\ got.kind = "ok"
          /\ Len(got.val) = 2
          /\ {got.val[1], got.val[2]} = {th["t1"].arg, th["t2"].arg}

\* C3: from any point of a save_response(r) on a storage file holding the
\* array A, whatever happens next (a step of the call, a failure in it, the
\* process being killed), load_responses on the file gives A or A followed by r.
C3_CrashAtomic ==
    [][\A p \in Procs :
          (AppendCall(p) /\ th[p].pc # "idle" /\ HoldsArray(th[p].pre)) =>
              LoadResult(file') \in {Ok(ArrayOf(th[p].pre)),
                                     Ok(Append(ArrayOf(th[p].pre), th[p].arg))}]_vars

\* C3 witness: the process was killed after the temporary file was written and
\* before it was renamed: the storage file still holds A, the full new text
\* sits in a temporary file, and the server is starting again.
C3_Witness ==
    /\ server = "booting"
    /\ file = FileOf(Serialize(JArr(<<RYes>>)))
    /\ initial = file
    /\ \E n \in TmpNames : tmps[n] = FileOf(Serialize(JArr(<<RYes, RList>>)))

\* C4: when the store started absent or as a JSON array, then whenever no
\* write of ensure_storage_file is under way (also after the process was
\* killed in one), the storage file is absent or holds a JSON array.
C4_FileAlwaysValid ==
    (/\ ~initial.exists \/ HoldsArray(initial)
     /\ \A p \in Procs : th[p].pc # "e_write")
    => (~file.exists \/ HoldsArray(file))

\* C5: with calls made one after another on a store that started as the array
\* A, the file holds A followed by the records whose save_response returned,
\* in call order.
C5_InsertionOrder ==
    HoldsArray(initial) => LoadResult(file) = Ok(ArrayOf(initial) \o log)

\* C5 witness: two different records appended to a non-empty array.
C5_Witness ==
    /\ initial = FileOf(Serialize(JArr(<<RYes>>)))
    /\ log = <<RList, RNull>>
    /\ file = FileOf(Serialize(JArr(<<RYes, RList, RNull>>)))

\* C6: when save_response fails writing, closing or renaming the temporary
\* file, it raises StorageError, the temporary file it created is gone and the
\* storage file is as it was before the call.
C6_WriteFailureCleansUp ==
    \A p \in Procs :
        (AppendCall(p) /\ th[p].pc = "done" /\ th[p].result.msg = WriteErrorMsg) =>
            /\ th[p].result.kind = "StorageError"
            /\ th[p].tmpName # 0 => ~tmps[th[p].tmpName].exists
            /\ file = th[p].pre

C8_CorruptNotRepaired ==
    \A p \in Procs :
        (AppendCall(p) /\ th[p].pc # "idle" /\ Corrupt(th[p].pre)) =>
            /\ file = th[p].pre
            /\ th[p].tmpName = 0
            /\ th[p].pc \notin WritePcs
            /\ th[p].pc = "done" =>
                 \E o \in LoadOutcomes(th[p].pre) :
                     /\ o.kind = "StorageError"
                     /\ th[p].result.kind = o.kind
                     /\ th[p].result.msg = o.msg

\* C8 witness: save_response has ended with the not-an-array error on a file
\* holding a JSON object.
C8_Witness ==
    \E p \in Procs :
        /\ th[p].op = "append" /\ th[p].pc = "done"
        /\ th[p].pre = FileOf(Serialize(RYes))
        /\ th[p].result = StorageError(NotArrayMsg)
        /\ file = FileOf(Serialize(RYes))

\* C9: no step of ensure_storage_file touches a temporary file; a call that
\* found the storage file existing changes nothing; a call that found it
\* missing and returns leaves it holding the empty array.
C9_EnsureIdempotent ==
    [][\A p \in Procs :
          th[p].pc \in EnsurePcs =>
              /\ tmps' = tmps
              /\ th[p].pre.exists => (file' = file /\ dirExists' = dirExists)
              /\ (/\ ~th[p].pre.exists
                  /\ th'[p].pc \notin EnsurePcs
                  /\ th'[p].result.kind # "OSError"
                  /\ server' # "down")
                 => file' = EmptyArrayFile]_vars

\* C9 witness: on a path where the file was missing, a later call of
\* ensure_storage_file has returned and the directory holds the one file, [].
C9_Witness ==
    \E p \in Procs :
        /\ th[p].op = "ensure" /\ Succeeded(p)
        /\ ~initial.exists
        /\ th[p].pre = EmptyArrayFile
        /\ file = EmptyArrayFile
        /\ \A n \in TmpNames : ~tmps[n].exists

\* C10: a call of ensure_storage_file or save_response never ends with a raw
\* OSError: a failure of ensure_storage_file is raised as StorageError.
C10_EnsureSignalsStorageError ==
    \A p \in Procs :
        (th[p].pc = "done" /\ th[p].op \in {"ensure", "append", "submit"}) =>
            th[p].result.kind # "OSError"

\* C11: a save_response that has failed, at whatever step, has left nothing
\* behind: the storage file is as it was before the call and the temporary
\* file the call created is gone, so that a retry finds the store as the
\* failed call found it.
C11_FailedAppendLeavesNothing ==
    \A p \in Procs :
        (AppendCall(p) /\ th[p].pc = "done" /\ th[p].result.kind # "ok") =>
            /\ file = th[p].pre
            /\ th[p].tmpName # 0 => ~tmps[th[p].tmpName].exists

\* C12: receive_response answers 200 exactly when save_response returned, and
\* answers every failure of save_response with 500 and the one fixed message.
C12_GenericServerError ==
    \A p \in Procs :
        (th[p].op = "submit" /\ th[p].pc = "done" /\ th[p].result.kind # "BadRequest") =>
            /\ th[p].result.status = HttpOk <=> th[p].result.kind = "ok"
            /\ th[p].result.kind # "ok" =>
                 /\ th[p].result.status = HttpServerError
                 /\ th[p].result.body = "Failed to persist survey response."

\* C13: a request whose body is missing or does not parse as JSON is answered
\* 400 in the step that reads it: save_response is not entered, and storage
\* file, temporary files and directory are unchanged.
C13_BadBodyRejected ==
    [][\A p \in Procs :
          (th[p].pc = "idle" /\ th'[p].op = "submit" /\ ~GetJson(th'[p].body).ok) =>
              /\ th'[p].pc = "done"
              /\ th'[p].result.kind = "BadRequest"
              /\ th'[p].result.status = HttpBadRequest
              /\ file' = file /\ tmps' = tmps /\ dirExists' = dirExists /\ log' = log]_vars

\* C13 witness: a request without a body was answered 400 on a store holding
\* an array.
C13_Witness ==
    \E p \in Procs :
        /\ th[p].op = "submit" /\ th[p].pc = "done"
        /\ th[p].body = NoBody
        /\ th[p].result.status = HttpBadRequest
        /\ file = FileOf(Serialize(JArr(<<RYes>>)))

\* C14: every request whose body is a JSON value (object, array or scalar)
\* reaches save_response, and when that returns the value is the last element
\* of the stored array and the answer is 200.
C14_AnyJsonStored ==
    \A p \in Procs :
        (th[p].op = "submit" /\ th[p].pc = "done" /\ GetJson(th[p].body).ok) =>
            /\ th[p].result.kind # "BadRequest"
            /\ th[p].result.kind = "ok" =>
                 /\ th[p].result.status = HttpOk
                 /\ LoadResult(file).kind = "ok"
                 /\ Len(LoadResult(file).val) >= 1
                 /\ LoadResult(file).val[Len(LoadResult(file).val)] = GetJson(th[p].body).val

\* The messages of StorageError that report a corrupt storage file.
CorruptMsgs == {ParseErrorMsg, NotArrayMsg}

\* C15: the error of a failed load_responses or save_response tells what
\* failed: the parse and not-an-array errors are raised only on a storage file
\* that exists and does not hold a JSON array, in keeping with the file's
\* content; every other failure is the read error, the write error or an
\* OSError.  A call that reports success has done its work: load_responses
\* returned the stored array (none for a missing file), save_response stored
\* the record.
C15_ErrorsTellKind ==
    \A p \in Procs :
        (th[p].pc = "done" /\ (th[p].op = "load" \/ AppendCall(p))) =>
            LET res == th[p].result
                pre == th[p].pre
            IN /\ res.kind \in {"ok", "StorageError", "OSError"}
               /\ res.kind = "OSError" => th[p].op # "load"
               /\ res.kind = "StorageError" =>
                    /\ res.msg \in CorruptMsgs \cup {ReadErrorMsg, WriteErrorMsg}
                    /\ res.msg \in CorruptMsgs => Corrupt(pre)
                    /\ res.msg = ParseErrorMsg => ~JsonLoad(pre.content).ok
                    /\ res.msg = NotArrayMsg => JsonLoad(pre.content).ok
                    /\ res.msg = WriteErrorMsg => th[p].op # "load" /\ ~Corrupt(pre)
               /\ res.kind = "ok" =>
                    /\ ~Corrupt(pre)
                    /\ th[p].op = "load" =>
                         res.val = (IF pre.exists THEN ArrayOf(pre) ELSE <<>>)
                    /\ th[p].op # "load" =>
                         /\ Len(log) >= 1 /\ log[Len(log)] = th[p].arg
                         /\ LoadResult(file) =
                              Ok(Append(IF pre.exists THEN ArrayOf(pre) ELSE <<>>, th[p].arg))

\* C15 witness: load_responses has failed with the read error on a storage
\* file that holds a JSON array.
C15_Witness ==
    \E p \in Procs :
        /\ th[p].op = "load" /\ th[p].pc = "done"
        /\ th[p].pre = FileOf(Serialize(JArr(<<RYes>>)))
        /\ th[p].result = StorageError(ReadErrorMsg)

\* C16: the step of load_responses changes neither the storage file nor the
\* temporary files nor the directory, and on a missing storage file it
\* returns the empty list.
C16_LoadReadsOnly ==
    [][\A p \in Procs :
          th[p].pc = "l_read" =>
              /\ file' = file /\ tmps' = tmps /\ dirExists' = dirExists
              /\ ~file.exists => (th'[p].pc = "done" /\ th'[p].result = Ok(<<>>))]_vars

\* C16 witness: load_responses has returned the empty list and the storage
\* file is still missing.
C16_Witness ==
    \E p \in Procs :
        /\ th[p].op = "load" /\ th[p].pc = "done"
        /\ ~th[p].pre.exists /\ ~file.exists
        /\ th[p].result = Ok(<<>>)

\* C17: a step of ensure_storage_file changes the storage file only when the
\* file is absent or is the one this call has itself just created: a storage
\* file that exists when the call opens it keeps its content, also when other
\* threads have run between the existence test and the open.
C17_EnsureWritesOnlyAbsent ==
    [][\A p \in Procs :
          (/\ th[p].pc \in {"e_open", "e_write"}
           /\ th'[p].pc # th[p].pc
           /\ file.exists
           /\ th[p].fd # "cur")
          => file' = file]_vars

\* C18: with one save_response(r), the only one so far, under way or ended on
\* a store that held the array A (A empty for a missing file), a
\* load_responses of another thread whose read worked has returned A or A
\* followed by r, and no error.
C18_LoadSeesOldOrNew ==
    \A p, q \in Procs :
        (/\ p # q
         /\ AppendCall(p) /\ th[p].pc # "idle"
         /\ ~th[p].pre.exists \/ HoldsArray(th[p].pre)
         /\ log = (IF Succeeded(p) THEN <<th[p].arg>> ELSE <<>>)
         /\ th[q].op = "load" /\ th[q].pc = "done"
         /\ th[q].result # StorageError(ReadErrorMsg))
        => LET A == IF th[p].pre.exists THEN ArrayOf(th[p].pre) ELSE <<>>
           IN th[q].result \in {Ok(A), Ok(Append(A, th[p].arg))}

\* C19: a step of save_response that changes a storage file which exists (and
\* which the call has not itself just created) is the os.replace, taken after
\* the temporary file was closed holding the whole serialized array; the
\* storage file then holds exactly that text.
C19_OnlyRenameChangesTarget ==
    [][\A p \in Procs :
          (/\ AppendCall(p)
           /\ th'[p].pc # th[p].pc
           /\ file.exists /\ th[p].fd # "cur"
           /\ file' # file)
          => /\ th[p].pc = "s_replace"
             /\ th[p].tmpPath
             /\ tmps[th[p].tmpName] = FileOf(Serialize(JArr(th[p].data)))
             /\ file' = tmps[th[p].tmpName]]_vars

====
